---- MODULE Spec2Model ----
(***************************************************************************)
(* A model of gsvi: the SVSeries container (gsvi/timeseries.py) and the     *)
(* GoogleConnection client (gsvi/connection.py).                            *)
(*                                                                          *)
(* Instants are whole hours counted from 2004-01-01 00:00, so a day is 24   *)
(* and a datetime.timedelta is a difference of instants.  A pd.Series is a  *)
(* sequence of <<instant, value>> rows in index order.  None is the empty   *)
(* sequence where the attribute otherwise holds a non-empty sequence (data, *)
(* request_structure).  A missing dict key has the value Absent.            *)
(***************************************************************************)
EXTENDS Integers, Sequences, FiniteSets, TLC

VARIABLES
    queries,            \* SVSeries._queries: sequence of query dicts
    granularity,        \* SVSeries._granularity
    category,           \* SVSeries._category
    bounds,             \* SVSeries._bounds: <<lower, upper>>
    data,               \* SVSeries.data: sequence of named columns, <<>> is None
    request_structure,  \* SVSeries._request_structure: sequence of layers, <<>> is None
    is_consistent,      \* SVSeries.is_consistent
    world,              \* the upstream's raw search volumes
    now,                \* datetime.datetime.now()
    last,               \* what the most recent operation did, as its caller observes it
    sizes,              \* layer sizes of a tournament run on its own
    callers             \* threads sharing one GoogleConnection: where each one is

vars == <<queries, granularity, category, bounds, data, request_structure,
          is_consistent, world, now, last, sizes, callers>>

-----------------------------------------------------------------------------
(* Arithmetic and sequences *)

Min2(a, b) == IF a < b THEN a ELSE b
Max2(a, b) == IF a > b THEN a ELSE b
SetMax(S) == CHOOSE x \in S : \A y \in S : y <= x
SetMin(S) == CHOOSE x \in S : \A y \in S : x <= y
CeilDiv(a, b) == (a + b - 1) \div b

\* s[i:j] of Python on a 0-based slice, as a 1-based sequence
Slice(s, i, j) == SubSeq(s, i + 1, Min2(j, Len(s)))

RECURSIVE Flatten(_)
Flatten(ss) == IF ss = <<>> THEN <<>> ELSE Head(ss) \o Flatten(Tail(ss))

-----------------------------------------------------------------------------
(* Program constants *)

MAX_FRGMNTS == 5
MONTH_MIN_DAYS == 1890
DAY_MIN_DAYS == 1
DAY_MAX_DAYS == 269
HOUR_MIN_DAYS == 3
HOUR_MAX_DAYS == 7
MAX_QUERIES == 5
HoursPerDay == 24
EARLIEST == 0
FULL_SCALE == 100
CAT_NONE == 0
CAT_COMPUTERS == 5

GRANULARITIES == {"MONTH", "DAY", "HOUR"}
Absent == "<absent>"      \* a dict without 'key' or 'geo'
NoRange == <<>>           \* a dict without 'range'
NoError == "None"

-----------------------------------------------------------------------------
(* pd.Series *)

SeriesValues(s) == {s[i][2] : i \in 1..Len(s)}
SeriesIndex(s) == {s[i][1] : i \in 1..Len(s)}
SeriesMax(s) == SetMax(SeriesValues(s))

\* Series.idxmax(): the label of the first row holding the maximum
idxmax(s) ==
    LET m == SeriesMax(s)
        first == SetMin({i \in 1..Len(s) : s[i][2] = m})
    IN s[first][1]

RECURSIVE InsertRow(_, _)
InsertRow(sorted, row) ==
    IF sorted = <<>> THEN <<row>>
    ELSE IF row[1] < Head(sorted)[1] THEN <<row>> \o sorted
    ELSE <<Head(sorted)>> \o InsertRow(Tail(sorted), row)

sort_index_skipped(s) == s

\* Series.sort_index()
RECURSIVE sort_index(_)
sort_index(s) ==
    IF s = <<>> THEN <<>> ELSE InsertRow(sort_index(Tail(s)), Head(s))

\* s[lower:] on a sorted index: the rows labelled lower or later
SliceFrom(s, lower) == SelectSeq(s, LAMBDA row : row[1] >= lower)

\* pd.concat(pieces, verify_integrity=True) raises on a repeated label
HasDuplicateIndex(s) == Cardinality(SeriesIndex(s)) # Len(s)

-----------------------------------------------------------------------------
(* SVSeries._build_intervals *)

\* datetime.timedelta.days of a non-negative difference of instants
TimedeltaDays(td) == td \div HoursPerDay

interval_length_no_month(bnds, gran) ==
    LET span == TimedeltaDays(bnds[2] - bnds[1])
        days == IF gran = "HOUR" THEN Max2(Min2(span, HOUR_MAX_DAYS), HOUR_MIN_DAYS)
                ELSE Max2(Min2(span, DAY_MAX_DAYS), DAY_MIN_DAYS)
    IN days * HoursPerDay

interval_length(bnds, gran) ==
    LET span == TimedeltaDays(bnds[2] - bnds[1])
        days == IF gran = "HOUR" THEN Max2(Min2(span, HOUR_MAX_DAYS), HOUR_MIN_DAYS)
                ELSE IF gran = "MONTH" THEN Max2(span, MONTH_MIN_DAYS)
                ELSE Max2(Min2(span, DAY_MAX_DAYS), DAY_MIN_DAYS)
    IN days * HoursPerDay

interval_offset_none(gran) == 0
interval_offset(gran) == IF gran = "HOUR" THEN 1 ELSE HoursPerDay

\* the while loop: intervals are appended from bounds[1] downwards
RECURSIVE IntervalLoop(_, _, _, _)
IntervalLoop(time_pointer, lower, length, offset) ==
    IF time_pointer > lower
    THEN <<<<time_pointer - length, time_pointer>>>>
         \o IntervalLoop(time_pointer - length - offset, lower, length, offset)
    ELSE <<>>

build_intervals(bnds, gran) ==
    IntervalLoop(bnds[2], bnds[1], interval_length(bnds, gran), interval_offset(gran))

-----------------------------------------------------------------------------
(* The upstream (Google Trends).  A world gives every keyword a raw volume  *)
(* at every instant: w.base, except at the instants of w.events.  The       *)
(* upstream answers a comparison with one series per item, all scaled by    *)
(* the highest raw volume of the comparison, which becomes 100.  A series   *)
(* holds the two ends of the item's range and the event instants between.   *)

Vol(w, key, cat, t) ==
    LET hits == {e \in w.events : e.key = key /\ e.cat = cat /\ e.at = t}
    IN IF hits = {} THEN w.base ELSE SetMax({e.vol : e \in hits})

Sampled(w, range) ==
    {range[1], range[2]} \cup {e.at : e \in {x \in w.events : range[1] <= x.at /\ x.at <= range[2]}}

RECURSIVE SetToSortedSeq(_)
SetToSortedSeq(S) ==
    IF S = {} THEN <<>> ELSE LET m == SetMin(S) IN <<m>> \o SetToSortedSeq(S \ {m})

RawSeries(w, item, cat) ==
    LET ts == SetToSortedSeq(Sampled(w, item.time))
    IN [i \in 1..Len(ts) |-> <<ts[i], Vol(w, item.keyword, cat, ts[i])>>]

Rescale(series, top) ==
    [i \in 1..Len(series) |->
        <<series[i][1], IF top = 0 THEN 0 ELSE (FULL_SCALE * series[i][2]) \div top>>]

UpstreamTimeline(w, items, cat) ==
    LET raw == [i \in 1..Len(items) |-> RawSeries(w, items[i], cat)]
        top == SetMax(UNION {SeriesValues(raw[i]) : i \in 1..Len(items)})
    IN [i \in 1..Len(items) |-> Rescale(raw[i], top)]

-----------------------------------------------------------------------------
(* GoogleConnection.  env.fail = k > 0 makes the k-th GET of the running    *)
(* operation fail (HTTP error, connection error or timeout); sent counts    *)
(* the GETs the operation has issued so far.                                *)

\* d.strftime('%Y-%m-%d') names the day of d, '%Y-%m-%dT%H' its hour
strftime(d, gran) == IF gran # "HOUR" THEN d - (d % HoursPerDay) ELSE d

geo_upper(geo) == IF geo = "us" THEN "US" ELSE geo

ComparisonItems(qs, gran) ==
    [i \in 1..Len(qs) |->
        [keyword |-> qs[i].key,
         time |-> <<strftime(qs[i].range[1], gran), strftime(qs[i].range[2], gran)>>,
         geo |-> geo_upper(qs[i].geo)]]

ts_api_of(qs) ==
    IF Len(qs) = 1 THEN "SINGLE"
    ELSE IF \A i \in 1..Len(qs) : qs[1].range = qs[i].range THEN "SINGLE"
    ELSE "MULTI"

GetFails(sent, env) == env.fail = sent + 1

WIDGET_IDS == {"TIMESERIES", "GEO_MAP", "RELATED_TOPICS", "RELATED_QUERIES"}

\* the widgets the upstream lists in answer to an explore request, the nth GET
\* of the running operation: each with the request to send and a token of its own
ExploreWidgets(explore, nth) ==
    [id \in WIDGET_IDS |->
        [req |-> [items |-> explore.items, category |-> explore.category],
         token |-> <<id, nth>>]]

payload_related(widgets) == widgets["RELATED_QUERIES"]

\* payload=widgets['TIMESERIES']
payload(widgets) == widgets["TIMESERIES"]

\* the GET of _get_timeseries: req and token of the payload, sent to URL_TS[ts_api]
TimeseriesRequest(widget, api) ==
    [kind |-> "timeseries", items |-> widget.req.items, category |-> widget.req.category,
     api |-> api, token |-> widget.token]

\* _get_explore then _get_timeseries (connection.py 201-205)
explore_then_timeseries(qs, cat, gran, sent, env) ==
    LET items == ComparisonItems(qs, gran)
        explore == [kind |-> "explore", items |-> items, category |-> cat]
        timeseries == TimeseriesRequest(payload(ExploreWidgets(explore, sent + 1)),
                                        ts_api_of(qs))
    IN IF GetFails(sent, env)
       THEN [raised |-> "RequestException", series |-> <<>>, events |-> <<explore>>]
       ELSE IF GetFails(sent + 1, env)
       THEN [raised |-> "RequestException", series |-> <<>>,
             events |-> <<explore, timeseries>>]
       ELSE [raised |-> NoError, series |-> UpstreamTimeline(env.w, items, cat),
             events |-> <<explore, timeseries>>]

TooManyOffByOne(qs) == Len(qs) > MAX_QUERIES + 1
TooMany(qs) == Len(qs) > MAX_QUERIES

\* the input checks of get_timeseries, in the order of the code
ValidationError(qs) ==
    IF TooMany(qs) THEN "ValueError"
    ELSE IF \E i \in 1..Len(qs) : qs[i].key = Absent THEN "KeyError"
    ELSE IF \E i \in 1..Len(qs) : qs[i].range = NoRange THEN "KeyError"
    ELSE IF \E i \in 1..Len(qs) : qs[i].geo = Absent THEN "KeyError"
    ELSE NoError

\* events: the call itself, then the GETs it issued
get_timeseries(qs, cat, gran, sent, env) ==
    LET call == [kind |-> "get_timeseries", queries |-> qs, category |-> cat]
        r == explore_then_timeseries(qs, cat, gran, sent, env)
    IN IF ValidationError(qs) # NoError
       THEN [raised |-> ValidationError(qs), series |-> <<>>, events |-> <<call>>]
       ELSE [r EXCEPT !.events = <<call>> \o @]

IsGet(e) == e.kind \in {"explore", "timeseries"}
CountGets(events) == Len(SelectSeq(events, IsGet))

-----------------------------------------------------------------------------
(* SVSeries.get_data.  self is the record of the attributes the call reads; *)
(* a loop state st carries raised (the exception in flight), events (calls, *)
(* GETs and sleeps so far) and what the loop has built.                     *)

MaxQuery_last(qs, r) ==
    IF r.raised # NoError THEN [raised |-> r.raised, query |-> <<>>, events |-> r.events]
    ELSE IF \A i \in 1..Len(qs) : SeriesMax(r.series[i]) # FULL_SCALE
    THEN [raised |-> "ValueError", query |-> <<>>, events |-> r.events]
    ELSE [raised |-> NoError, events |-> r.events,
          query |-> qs[SetMax({i \in 1..Len(qs) : SeriesMax(r.series[i]) = FULL_SCALE})]]

\* the loop over the response: the first query whose series peaks at 100
MaxQuery(qs, r) ==
    IF r.raised # NoError THEN [raised |-> r.raised, query |-> <<>>, events |-> r.events]
    ELSE IF \A i \in 1..Len(qs) : SeriesMax(r.series[i]) # FULL_SCALE
    THEN [raised |-> "ValueError", query |-> <<>>, events |-> r.events]
    ELSE [raised |-> NoError, events |-> r.events,
          query |-> qs[SetMin({i \in 1..Len(qs) : SeriesMax(r.series[i]) = FULL_SCALE})]]

FirstQuery(qs, r) ==
    IF r.raised # NoError THEN [raised |-> r.raised, query |-> <<>>, events |-> r.events]
    ELSE [raised |-> NoError, query |-> qs[1], events |-> r.events]

get_max_request_first(self, qs, sent, env) ==
    FirstQuery(qs, get_timeseries(qs, self.category, self.granularity, sent, env))

\* _get_max_request
get_max_request(self, qs, sent, env) ==
    MaxQuery(qs, get_timeseries(qs, self.category, self.granularity, sent, env))

\* math.ceil(math.log(m, 5)): the float quotient log(125)/log(5) is
\* 3.0000000000000004, so 125 gives 4; every other m of the model is exact
RECURSIVE CeilLog(_, _, _)
CeilLog(m, k, pow) == IF pow >= m THEN k ELSE CeilLog(m, k + 1, pow * MAX_FRGMNTS)

FloatCeilLog(m) ==
    IF m = MAX_FRGMNTS * MAX_FRGMNTS * MAX_FRGMNTS THEN 4 ELSE CeilLog(m, 0, 1)

DepthWithoutExtra(n) == FloatCeilLog(CeilDiv(n, MAX_FRGMNTS))
Depth(n) == FloatCeilLog(CeilDiv(n, MAX_FRGMNTS)) + 1

\* a sleep lasts a whole number of thousandths of a second
MILLIS == 1000
RandSteps == 4

\* random.uniform(a, b) is a + (b - a) * random(); random() is u / RandSteps
uniform(a, b, u) == a + ((b - a) * u) \div RandSteps

SleepLength_half(delay, u) ==
    MILLIS * delay + uniform(-((MILLIS * delay) \div 2), (MILLIS * delay) \div 2, u)

\* delay + random.uniform(delay * -0.25, delay * 0.25)
SleepLength(delay, u) ==
    MILLIS * delay + uniform(-((MILLIS * delay) \div 4), (MILLIS * delay) \div 4, u)

IsSleep(e) == e.kind = "sleep"

\* what random() gives at the next sleep: env.rand at the first one, a step
\* further at each later one
Drawn(env, events) == (env.rand + Len(SelectSeq(events, IsSleep))) % (RandSteps + 1)

SleepEvent(length) == [kind |-> "sleep", length |-> length]

RECURSIVE ProbeLoop(_, _, _, _, _)

Probed_prepends(self, layer_in, j, st, env, r) ==
    IF r.raised # NoError
    THEN [st EXCEPT !.raised = r.raised, !.events = @ \o r.events]
    ELSE IF SleepLength(self.delay, Drawn(env, st.events)) < 0
    THEN [st EXCEPT !.raised = "ValueError", !.events = @ \o r.events,
                    !.layer = Append(@, r.query)]
    ELSE ProbeLoop(self, layer_in, j + MAX_FRGMNTS,
                   [st EXCEPT !.events = @ \o r.events
                                   \o <<SleepEvent(SleepLength(self.delay,
                                                               Drawn(env, st.events)))>>,
                              !.layer = <<r.query>> \o @],
                   env)

\* layer.append(r), then time.sleep, which raises ValueError on a negative length
Probed(self, layer_in, j, st, env, r) ==
    IF r.raised # NoError
    THEN [st EXCEPT !.raised = r.raised, !.events = @ \o r.events]
    ELSE IF SleepLength(self.delay, Drawn(env, st.events)) < 0
    THEN [st EXCEPT !.raised = "ValueError", !.events = @ \o r.events,
                    !.layer = Append(@, r.query)]
    ELSE ProbeLoop(self, layer_in, j + MAX_FRGMNTS,
                   [st EXCEPT !.events = @ \o r.events
                                   \o <<SleepEvent(SleepLength(self.delay,
                                                               Drawn(env, st.events)))>>,
                              !.layer = Append(@, r.query)],
                   env)

ProbeLoop_short_group(self, layer_in, j, st, env) ==
    IF st.raised # NoError \/ j >= Len(layer_in) THEN st
    ELSE Probed(self, layer_in, j, st, env,
                get_max_request(self, Slice(layer_in, j, j + MAX_FRGMNTS - 1),
                                CountGets(st.events), env))

\* for j in range(0, len(requests[i]), MAX_FRGMNTS): probe, then sleep
ProbeLoop(self, layer_in, j, st, env) ==
    IF st.raised # NoError \/ j >= Len(layer_in) THEN st
    ELSE Probed(self, layer_in, j, st, env,
                get_max_request(self, Slice(layer_in, j, j + MAX_FRGMNTS),
                                CountGets(st.events), env))

RECURSIVE Phase1(_, _, _, _, _)

\* requests.append(layer)
LayerDone(self, i, depth, st, env, p) ==
    IF p.raised # NoError
    THEN [st EXCEPT !.raised = p.raised, !.events = p.events]
    ELSE Phase1(self, i + 1, depth,
                [st EXCEPT !.events = p.events, !.requests = Append(@, p.layer)], env)

\* Phase 1: for i in range(0, depth)
Phase1(self, i, depth, st, env) ==
    IF st.raised # NoError \/ i >= depth THEN st
    ELSE LayerDone(self, i, depth, st, env,
                   ProbeLoop(self, st.requests[i + 1], 0,
                             [raised |-> NoError, events |-> st.events, layer |-> <<>>],
                             env))

NormSliceOfFive(requests, i) ==
    Slice(requests[1], i, i + MAX_FRGMNTS) \o requests[Len(requests)]

NormSlice(requests, i) ==
    Slice(requests[1], i, i + MAX_FRGMNTS - 1) \o requests[Len(requests)]

DropLast_first(s) == Tail(s)
DropLast(s) == SubSeq(s, 1, Len(s) - 1)

RECURSIVE Phase2(_, _, _, _, _)

\* response_flat.extend(r[:-1])
Normalized(self, requests, i, st, env, r) ==
    IF r.raised # NoError
    THEN [st EXCEPT !.raised = r.raised, !.events = @ \o r.events]
    ELSE Phase2(self, requests, i + MAX_FRGMNTS - 1,
                [st EXCEPT !.events = @ \o r.events,
                           !.response_flat = @ \o DropLast(r.series)],
                env)

\* Phase 2: for i in range(0, len(requests[0]), MAX_FRGMNTS - 1)
Phase2(self, requests, i, st, env) ==
    IF st.raised # NoError \/ i >= Len(requests[1]) THEN st
    ELSE Normalized(self, requests, i, st, env,
                    get_timeseries(NormSlice(requests, i), self.category,
                                   self.granularity, CountGets(st.events), env))

\* requests[0]: every query with every interval, query-major
BaseLayer(qs, intervals) ==
    Flatten([q \in 1..Len(qs) |->
                [k \in 1..Len(intervals) |-> [qs[q] EXCEPT !.range = intervals[k]]]])

FetchState(layer0) ==
    [raised |-> NoError, events |-> <<>>, requests |-> <<layer0>>, response_flat |-> <<>>]

\* the shortcut: one request, made without the category
Shortcut(layer0, r) ==
    [FetchState(layer0) EXCEPT !.raised = r.raised, !.events = r.events,
                               !.response_flat = r.series]

Tournament(self, won, env) == Phase2(self, won.requests, 0, won, env)

Fetch_below_cap(self, layer0, env) ==
    IF Len(layer0) < MAX_FRGMNTS
    THEN Shortcut(layer0, get_timeseries(layer0, CAT_NONE, self.granularity, 0, env))
    ELSE Tournament(self, Phase1(self, 0, Depth(Len(layer0)), FetchState(layer0), env), env)

\* lines 304-326: the shortcut, or the tournament and the normalization
Fetch(self, layer0, env) ==
    IF Len(layer0) <= MAX_FRGMNTS
    THEN Shortcut(layer0, get_timeseries(layer0, CAT_NONE, self.granularity, 0, env))
    ELSE Tournament(self, Phase1(self, 0, Depth(Len(layer0)), FetchState(layer0), env), env)

\* lines 328-333: one sorted series per query
Stack(response_flat, layer0, n) ==
    [c \in 1..CeilDiv(Len(response_flat), n) |->
        LET i == (c - 1) * n
            pieces == Flatten(Slice(response_flat, i, i + n))
        IN [name |-> layer0[i + n].key,
            duplicate |-> HasDuplicateIndex(pieces),
            rows |-> sort_index(pieces)]]

ValuesAt(rows, label) == {rows[r][2] : r \in {x \in 1..Len(rows) : rows[x][1] = label}}

\* DataFrame.max(axis=1): the highest value of each row of the table
RowMax(columns) ==
    LET labels == SetToSortedSeq(UNION {SeriesIndex(columns[c].rows) : c \in 1..Len(columns)})
    IN [i \in 1..Len(labels) |->
          <<labels[i],
            SetMax(UNION {ValuesAt(columns[c].rows, labels[i]) : c \in 1..Len(columns)})>>]

Truncate(columns, lower) ==
    [c \in 1..Len(columns) |-> [columns[c] EXCEPT !.rows = SliceFrom(@, lower)]]

KeepsAll_unforced(force_truncation, max_date, lower) == max_date < lower

KeepsAll(force_truncation, max_date, lower) == ~force_truncation /\ max_date < lower

\* the whole of get_data once the cache is passed over (lines 298-348)
Failed(raised, events) ==
    [raised |-> raised, events |-> events, data |-> <<>>, request_structure |-> <<>>,
     warned |-> FALSE, stitched |-> <<>>]

\* lines 342-346: warn and keep everything, or truncate at bounds[0]
Finished(self, f, columns, keep) ==
    [raised |-> NoError, events |-> f.events,
     data |-> IF keep THEN columns ELSE Truncate(columns, self.bounds[1]),
     request_structure |-> f.requests, warned |-> keep, stitched |-> columns]

\* lines 335-340: max_date
MaxDate(columns) ==
    IF Len(columns) = 1 THEN idxmax(columns[1].rows) ELSE idxmax(RowMax(columns))

Assigned(self, force_truncation, f, columns) ==
    Finished(self, f, columns, KeepsAll(force_truncation, MaxDate(columns), self.bounds[1]))

Stacked(self, force_truncation, f, stacked) ==
    IF \E c \in 1..Len(stacked) : stacked[c].duplicate
    THEN Failed("ValueError", f.events)
    ELSE Assigned(self, force_truncation, f,
                  [c \in 1..Len(stacked) |->
                      [name |-> stacked[c].name, rows |-> stacked[c].rows]])

Fetched(self, force_truncation, layer0, n, f) ==
    IF f.raised # NoError THEN Failed(f.raised, f.events)
    ELSE Stacked(self, force_truncation, f, Stack(f.response_flat, layer0, n))

Flattened(self, force_truncation, env, n, layer0) ==
    Fetched(self, force_truncation, layer0, n, Fetch(self, layer0, env))

Planned(self, force_truncation, env, intervals) ==
    Flattened(self, force_truncation, env, Len(intervals),
              BaseLayer(self.queries, intervals))

\* get_data after the cache check
Compute(self, force_truncation, env) ==
    Planned(self, force_truncation, env, build_intervals(self.bounds, self.granularity))

-----------------------------------------------------------------------------
(* Inputs *)

MaxQueries == 3
MaxFail == 10
Clock == 50000
DEFAULT_DELAY == 10

Keywords == <<"apple", "orange", "kiwi", "banana", "cherry", "grape", "lemon",
              "mango", "peach", "plum", "pear", "fig">>

Query(k) == [key |-> Keywords[k], geo |-> "us", range |-> NoRange]
QueryList(n) == [k \in 1..n |-> Query(k)]
QueryChoices == {QueryList(n) : n \in 1..MaxQueries}

Categories == {CAT_NONE, CAT_COMPUTERS}
GranularityInputs == {"DAY", "HOUR", "MONTH", "day", "WEEK"}

\* one day and nine days, both starting on 2004-01-11
ValidBounds == {<<240, 264>>, <<240, 456>>}
\* before 2004, not in the past, upper not after lower
BoundsInputs == ValidBounds \cup {<<-24, 264>>, <<240, Clock>>, <<264, 240>>}

Event(key, cat, at, vol) == [key |-> key, cat |-> cat, at |-> at, vol |-> vol]

WorldChoices ==
    { \* the peak inside every bounds; another one under the other category
      [base |-> 1, events |-> {Event("apple", CAT_NONE, 264, 4),
                               Event("orange", CAT_COMPUTERS, 432, 5)}],
      \* the peak on 2004-01-10, before every lower bound
      [base |-> 1, events |-> {Event("apple", CAT_NONE, 216, 4),
                               Event("apple", CAT_COMPUTERS, 216, 4)}],
      \* the same peak volume twice
      [base |-> 1, events |-> {Event("orange", CAT_NONE, 216, 3),
                               Event("apple", CAT_NONE, 432, 3)}],
      \* no search volume at all
      [base |-> 0, events |-> {}] }

LifecycleInputs == QueryChoices \X GRANULARITIES \X Categories \X ValidBounds \X WorldChoices

\* Longer ranges, all ending on day 1500
Day(d) == d * HoursPerDay
Upper == Day(1500)
LongBounds(days) == <<Upper - Day(days), Upper>>

LongWorlds ==
    { \* the peak on the last day
      [base |-> 1, events |-> {Event("apple", CAT_NONE, Upper, 4),
                               Event("apple", CAT_COMPUTERS, Upper, 4)}],
      \* the peak 700 days and 1000 hours before the end, with a lower one inside
      [base |-> 1, events |-> {Event("apple", CAT_NONE, Upper - Day(700), 4),
                               Event("apple", CAT_NONE, Upper - 1000, 4),
                               Event("apple", CAT_COMPUTERS, Upper - Day(700), 4),
                               Event("orange", CAT_NONE, Upper - Day(100), 2)}],
      \* the same peak volume 300 days and 200 hours before the end and on the last day
      [base |-> 1, events |-> {Event("apple", CAT_NONE, Upper - Day(300), 3),
                               Event("apple", CAT_NONE, Upper - 200, 3),
                               Event("apple", CAT_NONE, Upper, 3),
                               Event("orange", CAT_COMPUTERS, Upper, 3),
                               Event("apple", CAT_COMPUTERS, Upper - Day(300), 3)}],
      \* no search volume but for one day
      [base |-> 0, events |-> {Event("orange", CAT_NONE, Upper, 2)}] }

LongTuples ==
    { <<QueryList(1), "DAY", CAT_NONE, LongBounds(1)>>,
      <<QueryList(MAX_FRGMNTS), "DAY", CAT_NONE, LongBounds(1)>>,
      <<QueryList(1), "MONTH", CAT_NONE, LongBounds(1)>>,
      <<QueryList(MAX_FRGMNTS + 1), "MONTH", CAT_COMPUTERS, LongBounds(31)>>,
      <<QueryList(1), "DAY", CAT_NONE, LongBounds(270)>>,
      <<QueryList(1), "DAY", CAT_NONE, LongBounds(600)>>,
      <<QueryList(2), "DAY", CAT_NONE, LongBounds(600)>>,
      <<QueryList(2), "DAY", CAT_COMPUTERS, LongBounds(600)>>,
      <<QueryList(1), "DAY", CAT_COMPUTERS, LongBounds(1400)>>,
      <<QueryList(1), "HOUR", CAT_NONE, <<Upper - 900, Upper>>>>,
      <<QueryList(1), "HOUR", CAT_NONE, <<Upper - 4300, Upper>>>> }

LongInputs == {<<t[1], t[2], t[3], t[4], w>> : t \in LongTuples, w \in LongWorlds}

-----------------------------------------------------------------------------
(* Operations of the SVSeries container *)

Observed(op, raised) == [op |-> op, raised |-> raised]

CachedWhenStale == data # <<>> /\ ~is_consistent
Cached == data # <<>> /\ is_consistent

\* what random() gives at the first sleep of a call, where get_data is one
\* operation among the others; PaceSeeds below has every value
Seeds == {0}

\* Compute on every input of the model, evaluated once
ComputeTable ==
    [x \in LifecycleInputs \cup LongInputs |->
        [y \in BOOLEAN \X (0..MaxFail) \X Seeds |->
            Compute([queries |-> x[1], granularity |-> x[2], category |-> x[3],
                     bounds |-> x[4], delay |-> DEFAULT_DELAY],
                    y[1], [w |-> x[5], fail |-> y[2], rand |-> y[3]])] @@ <<>>] @@ <<>>

ReturnCached(delay, force_truncation) ==
    /\ last' = [op |-> "get_data", raised |-> NoError, ret |-> data,
                events |-> <<>>, warned |-> FALSE, stitched |-> <<>>,
                delay |-> delay, force_truncation |-> force_truncation, computed |-> FALSE,
                stale |-> FALSE, failed_get |-> 0]
    /\ UNCHANGED <<data, request_structure, is_consistent>>

Recompute_marks_consistent(delay, force_truncation, fail, r) ==
    /\ last' = [op |-> "get_data", raised |-> r.raised,
                ret |-> IF r.raised = NoError THEN r.data ELSE <<>>,
                events |-> r.events, warned |-> r.warned, stitched |-> r.stitched,
                delay |-> delay, force_truncation |-> force_truncation, computed |-> TRUE,
                stale |-> data # <<>>,
                failed_get |-> IF r.raised = "RequestException" THEN fail ELSE 0]
    /\ IF r.raised = NoError
       THEN data' = r.data /\ request_structure' = r.request_structure
       ELSE UNCHANGED <<data, request_structure>>
    /\ is_consistent' = TRUE

Recompute_clears(delay, force_truncation, fail, r) ==
    /\ last' = [op |-> "get_data", raised |-> r.raised,
                ret |-> IF r.raised = NoError THEN r.data ELSE <<>>,
                events |-> r.events, warned |-> r.warned, stitched |-> r.stitched,
                delay |-> delay, force_truncation |-> force_truncation, computed |-> TRUE,
                stale |-> data # <<>>,
                failed_get |-> IF r.raised = "RequestException" THEN fail ELSE 0]
    /\ data' = r.data
    /\ request_structure' = r.request_structure
    /\ is_consistent' = (r.raised = NoError)

\* failed_get: which GET of the call met the transport failure (0: none)
Recompute(delay, force_truncation, fail, r) ==
    IF r.raised # NoError
    THEN /\ last' = [op |-> "get_data", raised |-> r.raised, ret |-> <<>>,
                     events |-> r.events, warned |-> FALSE, stitched |-> <<>>,
                     delay |-> delay, force_truncation |-> force_truncation, computed |-> TRUE,
                     stale |-> data # <<>>,
                     failed_get |-> IF r.raised = "RequestException" THEN fail ELSE 0]
         /\ UNCHANGED <<data, request_structure, is_consistent>>
    ELSE /\ last' = [op |-> "get_data", raised |-> NoError, ret |-> r.data,
                     events |-> r.events, warned |-> r.warned,
                     stitched |-> r.stitched,
                     delay |-> delay, force_truncation |-> force_truncation, computed |-> TRUE,
                     stale |-> data # <<>>, failed_get |-> 0]
         /\ data' = r.data
         /\ request_structure' = r.request_structure
         /\ is_consistent' = TRUE

get_data(delay, force_truncation, fail, seed) ==
    /\ IF Cached
       THEN ReturnCached(delay, force_truncation)
       ELSE Recompute(delay, force_truncation, fail,
                      ComputeTable[<<queries, granularity, category, bounds, world>>][
                                   <<force_truncation, fail, seed>>])
    /\ UNCHANGED <<queries, granularity, category, bounds, world, now, sizes, callers>>

set_queries(qs) ==
    /\ is_consistent' = FALSE
    /\ queries' = qs
    /\ last' = Observed("queries", NoError)
    /\ UNCHANGED <<granularity, category, bounds, data, request_structure, world, now, sizes, callers>>

str_upper(g) ==
    CASE g = "day" -> "DAY" [] g = "hour" -> "HOUR" [] g = "month" -> "MONTH" [] OTHER -> g

set_granularity(g) ==
    /\ IF str_upper(g) \notin GRANULARITIES
       THEN /\ last' = Observed("granularity", "ValueError")
            /\ UNCHANGED <<is_consistent, granularity>>
       ELSE /\ is_consistent' = FALSE
            /\ granularity' = str_upper(g)
            /\ last' = Observed("granularity", NoError)
    /\ UNCHANGED <<queries, category, bounds, data, request_structure, world, now, sizes, callers>>

set_category_keeps_flag(c) ==
    /\ category' = c
    /\ last' = Observed("category", NoError)
    /\ UNCHANGED <<queries, granularity, bounds, data, request_structure, world, now,
                   sizes, callers, is_consistent>>

set_category(c) ==
    /\ is_consistent' = FALSE
    /\ category' = c
    /\ last' = Observed("category", NoError)
    /\ UNCHANGED <<queries, granularity, bounds, data, request_structure, world, now, sizes, callers>>

BoundsError_no_order(b, clock) ==
    \/ b[1] < EARLIEST
    \/ b[1] >= clock
    \/ b[2] >= clock

BoundsError(b, clock) ==
    \/ b[1] < EARLIEST
    \/ b[1] >= clock
    \/ b[2] >= clock
    \/ b[1] >= b[2]

set_bounds_keeps_flag(b) ==
    /\ IF BoundsError(b, now)
       THEN /\ last' = Observed("bounds", "ValueError")
            /\ UNCHANGED bounds
       ELSE /\ bounds' = b
            /\ last' = Observed("bounds", NoError)
    /\ UNCHANGED <<queries, granularity, category, data, request_structure, world, now,
                   sizes, callers, is_consistent>>

set_bounds(b) ==
    /\ IF BoundsError(b, now)
       THEN /\ last' = Observed("bounds", "ValueError")
            /\ UNCHANGED <<is_consistent, bounds>>
       ELSE /\ is_consistent' = FALSE
            /\ bounds' = b
            /\ last' = Observed("bounds", NoError)
    /\ UNCHANGED <<queries, granularity, category, data, request_structure, world, now, sizes, callers>>

\* __init__ with arguments its setters accept
Init ==
    /\ queries \in QueryChoices
    /\ granularity \in GRANULARITIES
    /\ category \in Categories
    /\ bounds \in ValidBounds
    /\ data = <<>>
    /\ request_structure = <<>>
    /\ is_consistent = FALSE
    /\ world \in WorldChoices
    /\ now = Clock
    /\ last = Observed("__init__", NoError)
    /\ sizes = <<>>
    /\ callers = <<>>

GetData ==
    \E ft \in BOOLEAN, fail \in 0..MaxFail, seed \in Seeds :
        get_data(DEFAULT_DELAY, ft, fail, seed)
SetQueries == \E qs \in QueryChoices : set_queries(qs)
SetGranularity == \E g \in GranularityInputs : set_granularity(g)
SetCategory == \E c \in Categories : set_category(c)
SetBounds == \E b \in BoundsInputs : set_bounds(b)

Next ==
    \/ GetData
    \/ SetQueries
    \/ SetGranularity
    \/ SetCategory
    \/ SetBounds

Spec == Init /\ [][Next]_vars

-----------------------------------------------------------------------------
(* get_data called again and again on a container built over a long range *)

InitData ==
    /\ \E x \in LongInputs :
          /\ queries = x[1]
          /\ granularity = x[2]
          /\ category = x[3]
          /\ bounds = x[4]
          /\ world = x[5]
    /\ data = <<>>
    /\ request_structure = <<>>
    /\ is_consistent = FALSE
    /\ now = Clock
    /\ last = Observed("__init__", NoError)
    /\ sizes = <<>>
    /\ callers = <<>>

NextData == GetData

SpecData == InitData /\ [][NextData]_vars

-----------------------------------------------------------------------------
(* _build_intervals on its own, over many bounds *)

MaxSpanDays == 545
MaxSpanHours == 340
MaxMonthOver == 110

PlanInputs ==
    {<<<<0, Day(d)>>, "DAY">> : d \in 1..MaxSpanDays}
    \cup {<<<<Day(2), Day(2) + h>>, "HOUR">> : h \in 1..MaxSpanHours}
    \cup {<<<<0, Day(d)>>, "MONTH">> :
             d \in (1..MaxSpanDays) \cup ((MONTH_MIN_DAYS - 1)..(MONTH_MIN_DAYS + MaxMonthOver))}
    \cup {<<<<Day(1) + 7, Day(d) + 3>>, "MONTH">> :
             d \in (2..3) \cup ((MONTH_MIN_DAYS - 1)..(MONTH_MIN_DAYS + 3))}

InitPlan ==
    /\ \E x \in PlanInputs : bounds = x[1] /\ granularity = x[2]
    /\ queries = QueryList(1)
    /\ category = CAT_NONE
    /\ data = <<>>
    /\ request_structure = <<>>
    /\ is_consistent = FALSE
    /\ world \in {w \in WorldChoices : w.events = {}}
    /\ now = Clock
    /\ last = Observed("__init__", NoError)
    /\ sizes = <<>>
    /\ callers = <<>>

BuildIntervals ==
    /\ last' = [op |-> "_build_intervals", raised |-> NoError,
                ret |-> build_intervals(bounds, granularity)]
    /\ UNCHANGED <<queries, granularity, category, bounds, data, request_structure,
                   is_consistent, world, now, sizes, callers>>

NextPlan == BuildIntervals

SpecPlan == InitPlan /\ [][NextPlan]_vars

-----------------------------------------------------------------------------
(* The tournament's layer sizes on their own: sizes[i + 1] is len(requests[i]) *)

MaxL0 == 640

\* the iterations of range(0, len(requests[i]), MAX_FRGMNTS), one winner each
LayerSize(s) == CeilDiv(s, MAX_FRGMNTS)

InitTour ==
    /\ sizes \in {<<n>> : n \in (MAX_FRGMNTS + 1)..MaxL0}
    /\ callers = <<>>
    /\ queries = QueryList(1)
    /\ granularity = "DAY"
    /\ category = CAT_NONE
    /\ bounds = LongBounds(1)
    /\ data = <<>>
    /\ request_structure = <<>>
    /\ is_consistent = FALSE
    /\ world \in {w \in WorldChoices : w.events = {}}
    /\ now = Clock
    /\ last = Observed("__init__", NoError)

TournamentLayer ==
    /\ Len(sizes) - 1 < Depth(sizes[1])
    /\ sizes' = Append(sizes, LayerSize(sizes[Len(sizes)]))
    /\ UNCHANGED <<queries, granularity, category, bounds, data, request_structure,
                   is_consistent, world, now, last, callers>>

NextTour == TournamentLayer

SpecTour == InitTour /\ [][NextTour]_vars

-----------------------------------------------------------------------------
(* GoogleConnection.get_timeseries called by a user of the client *)

MaxDirect == 7

DirectRange(k, multi) == IF multi /\ k = 2 THEN <<240, 456>> ELSE <<240, 264>>

\* query k of a call; the query at position lacks has no entry for field
DirectQuery(k, lacks, field, multi) ==
    [key |-> IF k = lacks /\ field = "key" THEN Absent ELSE Keywords[k],
     geo |-> IF k = lacks /\ field = "geo" THEN Absent ELSE "us",
     range |-> IF k = lacks /\ field = "range" THEN NoRange ELSE DirectRange(k, multi)]

DirectLists ==
    UNION {{[k \in 1..n |-> DirectQuery(k, x[1], x[2], x[3])] :
               x \in (0..n) \X {"key", "range", "geo"} \X BOOLEAN} : n \in 1..MaxDirect}

InitConn ==
    /\ queries = QueryList(1)
    /\ granularity = "DAY"
    /\ category = CAT_NONE
    /\ bounds = LongBounds(1)
    /\ data = <<>>
    /\ request_structure = <<>>
    /\ is_consistent = FALSE
    /\ world \in {w \in WorldChoices : \A e \in w.events : e.key = "apple"}
    /\ now = Clock
    /\ last = Observed("__init__", NoError)
    /\ sizes = <<>>
    /\ callers = <<>>

Called(qs, fail, r) ==
    /\ last' = [op |-> "get_timeseries", raised |-> r.raised, queries |-> qs,
                ret |-> r.series, events |-> Tail(r.events),
                failed_get |-> IF r.raised = "RequestException" THEN fail ELSE 0]
    /\ UNCHANGED <<queries, granularity, category, bounds, data, request_structure,
                   is_consistent, world, now, sizes, callers>>

call_get_timeseries(qs, cat, gran, fail) ==
    Called(qs, fail, get_timeseries(qs, cat, gran, 0, [w |-> world, fail |-> fail, rand |-> 0]))

CallGetTimeseries ==
    \E qs \in DirectLists, cat \in Categories, fail \in 0..2 :
        call_get_timeseries(qs, cat, "DAY", fail)

NextConn == CallGetTimeseries

SpecConn == InitConn /\ [][NextConn]_vars

-----------------------------------------------------------------------------
(* One GoogleConnection shared by containers that run in different threads. *)
(* A caller's get_timeseries sends the explore GET, reads its answer, sends *)
(* the timeseries GET and reads its answer; session.get blocks the calling  *)
(* thread only, and the connection holds no lock.                           *)

MaxCallers == 3
MaxCalls == 2

Callers == 1..MaxCallers

InitShare ==
    /\ callers = [t \in Callers |-> [pc |-> "idle", calls |-> 0]]
    /\ queries = QueryList(1)
    /\ granularity = "DAY"
    /\ category = CAT_NONE
    /\ bounds = LongBounds(1)
    /\ data = <<>>
    /\ request_structure = <<>>
    /\ is_consistent = FALSE
    /\ world \in {w \in WorldChoices : w.events = {}}
    /\ now = Clock
    /\ last = Observed("__init__", NoError)
    /\ sizes = <<>>

\* caller t moves from pc to next; the GET or the answer is what the wire sees
Step(t, pc, next, kind, done) ==
    /\ callers[t].pc = pc
    /\ callers' = [callers EXCEPT ![t] = [pc |-> next, calls |-> @.calls + done]]
    /\ last' = [op |-> "request", raised |-> NoError, caller |-> t, kind |-> kind]
    /\ UNCHANGED <<queries, granularity, category, bounds, data, request_structure,
                   is_consistent, world, now, sizes>>

SendExplore ==
    \E t \in Callers :
        callers[t].calls < MaxCalls /\ Step(t, "idle", "explore", "explore", 0)
ExploreAnswered == \E t \in Callers : Step(t, "explore", "widgets", "answer", 0)
SendTimeseries == \E t \in Callers : Step(t, "widgets", "timeseries", "timeseries", 0)
TimeseriesAnswered == \E t \in Callers : Step(t, "timeseries", "idle", "answer", 1)

NextShare == SendExplore \/ ExploreAnswered \/ SendTimeseries \/ TimeseriesAnswered

SpecShare == InitShare /\ [][NextShare]_vars

-----------------------------------------------------------------------------
(* RelatedQueries (gsvi/related.py) over GoogleConnection.get_related_queries. *)
(* The container's dict is <<entries>>, a sequence of entries in insertion     *)
(* order wrapped in a 1-tuple, so that None (<<>>) differs from {} (<< <<>> >>). *)

MaxRelated == 10
RELATED_STEP == 5
RELATED_BATCH == 4

IsRelatedGet(e) == e.kind \in {"explore", "related"}
CountRelatedGets(events) == Len(SelectSeq(events, IsRelatedGet))

\* what the upstream lists for a keyword
RelatedEntry(key) == [key |-> key, top |-> <<key, "top">>, rising |-> <<key, "rising">>]

\* d[e.key] = e
Put(d, e) ==
    IF \E i \in 1..Len(d) : d[i].key = e.key
    THEN [i \in 1..Len(d) |-> IF d[i].key = e.key THEN e ELSE d[i]]
    ELSE Append(d, e)

\* {**d, **entries}
RECURSIVE DictUpdate(_, _)
DictUpdate(d, entries) ==
    IF entries = <<>> THEN d ELSE DictUpdate(Put(d, Head(entries)), Tail(entries))

\* the GETs of one call: explore, then one relatedsearches GET per keyword; nth is
\* the position, among them, of the GET that fails (none when outside 1..n+1)
RelatedGets(qs, cat, nth) ==
    LET n == Len(qs)
        reached == IF nth \in 1..(n + 1) THEN nth - 1 ELSE n
    IN [raised |-> IF nth \in 1..(n + 1) THEN "RequestException" ELSE NoError,
        events |-> <<[kind |-> "explore", items |-> ComparisonItems(qs, "DAY"),
                      category |-> cat]>>
                   \o [k \in 1..reached |-> [kind |-> "related", keyword |-> qs[k].key]],
        entries |-> IF nth \in 1..(n + 1) THEN <<>>
                    ELSE DictUpdate(<<>>, [k \in 1..n |-> RelatedEntry(qs[k].key)])]

WithCall(call, r) == [r EXCEPT !.events = <<call>> \o @]

\* GoogleConnection.get_related_queries
get_related_queries(qs, cat, sent, env) ==
    IF ValidationError(qs) # NoError
    THEN [raised |-> ValidationError(qs), entries |-> <<>>,
          events |-> <<[kind |-> "get_related_queries", queries |-> qs, category |-> cat]>>]
    ELSE WithCall([kind |-> "get_related_queries", queries |-> qs, category |-> cat],
                  RelatedGets(qs, cat, env.fail - sent))

\* queries_bounds[i:min(i + 4, len(queries_bounds))]
RelatedBatch(queries_bounds, i) ==
    Slice(queries_bounds, i, Min2(i + RELATED_BATCH, Len(queries_bounds)))

RECURSIVE RelatedLoop(_, _, _, _)

\* self.data = {**self.data, **r}; self.is_consistent = True
Batched(queries_bounds, i, st, env, r) ==
    IF r.raised # NoError
    THEN [st EXCEPT !.raised = r.raised, !.events = @ \o r.events]
    ELSE RelatedLoop(queries_bounds, i + RELATED_STEP,
                     [st EXCEPT !.events = @ \o r.events,
                                !.data = DictUpdate(@, r.entries),
                                !.is_consistent = TRUE],
                     env)

\* for i in range(0, len(self.queries), 5)
RelatedLoop(queries_bounds, i, st, env) ==
    IF i >= Len(queries_bounds) THEN st
    ELSE Batched(queries_bounds, i, st, env,
                 get_related_queries(RelatedBatch(queries_bounds, i), CAT_NONE,
                                     CountRelatedGets(st.events), env))

RelatedStored(st) ==
    /\ data' = <<st.data>>
    /\ is_consistent' = st.is_consistent
    /\ last' = [op |-> "related.get_data", raised |-> st.raised,
                ret |-> IF st.raised = NoError THEN st.data ELSE <<>>,
                events |-> st.events, computed |-> TRUE]

RelatedCached ==
    /\ last' = [op |-> "related.get_data", raised |-> NoError, ret |-> data[1],
                events |-> <<>>, computed |-> FALSE]
    /\ UNCHANGED <<data, is_consistent>>

\* RelatedQueries.get_data
related_get_data(fail) ==
    /\ IF data # <<>> /\ is_consistent
       THEN RelatedCached
       ELSE RelatedStored(
                RelatedLoop([i \in 1..Len(queries) |-> [queries[i] EXCEPT !.range = bounds]],
                            0,
                            [raised |-> NoError, events |-> <<>>, data |-> <<>>,
                             is_consistent |-> is_consistent],
                            [w |-> world, fail |-> fail, rand |-> 0]))
    /\ UNCHANGED <<queries, granularity, category, bounds, request_structure, world, now,
                   sizes, callers>>

\* RelatedQueries.queries setter
related_set_queries(qs) ==
    /\ is_consistent' = FALSE
    /\ queries' = qs
    /\ last' = Observed("related.queries", NoError)
    /\ UNCHANGED <<granularity, category, bounds, data, request_structure, world, now,
                   sizes, callers>>

RelatedQueryChoices == {QueryList(n) : n \in 0..MaxRelated}

InitRelated ==
    /\ queries \in RelatedQueryChoices
    /\ granularity = "DAY"
    /\ category \in Categories
    /\ bounds \in ValidBounds
    /\ data = <<>>
    /\ request_structure = <<>>
    /\ is_consistent = FALSE
    /\ world \in {w \in WorldChoices : w.events = {}}
    /\ now = Clock
    /\ last = Observed("__init__", NoError)
    /\ sizes = <<>>
    /\ callers = <<>>

RelatedGetData == \E fail \in 0..MaxFail : related_get_data(fail)
RelatedSetQueries == \E qs \in RelatedQueryChoices : related_set_queries(qs)

NextRelated == RelatedGetData \/ RelatedSetQueries

SpecRelated == InitRelated /\ [][NextRelated]_vars

-----------------------------------------------------------------------------
(* Phase 1 on its own, over assignments of raw volumes to the fragments of  *)
(* the base layer.  The windows are HOUR windows; fragment (q, k), the k-th *)
(* window of the q-th keyword, has its volume at the window's upper end.    *)

MaxVol == 2
\* the distance between the upper ends of two successive HOUR windows
HOUR_WINDOW == HOUR_MAX_DAYS * HoursPerDay + interval_offset("HOUR")

\* <<number of keywords, number of windows>>
SmallShapes == {<<1, 6>>, <<1, 7>>, <<2, 3>>, <<2, 4>>, <<3, 2>>}
DeepShapes == {<<1, 26>>, <<3, 9>>}

WinnerBounds(windows) == <<Upper - (windows * HOUR_WINDOW - 20), Upper>>

VolumeWorld(shape, vols) ==
    [base |-> SetMin({vols[i] : i \in DOMAIN vols} \cup {1}),
     events |-> {Event(Keywords[q], CAT_NONE, Upper - (k - 1) * HOUR_WINDOW,
                       vols[(q - 1) * shape[2] + k]) :
                    q \in 1..shape[1], k \in 1..shape[2]}]

SilentShapes == {<<1, 6>>, <<2, 3>>}

\* every assignment for the small shapes; for the deep ones the base volume
\* but at one or two fragments; for the silent ones no volume but at some
\* fragments
WinnerInputs ==
    UNION {{<<shape, VolumeWorld(shape, vols)>> :
               vols \in [1..(shape[1] * shape[2]) -> 0..1]} : shape \in SilentShapes}
    \cup
    UNION {{<<shape, VolumeWorld(shape, vols)>> :
               vols \in [1..(shape[1] * shape[2]) -> 1..MaxVol]} : shape \in SmallShapes}
    \cup UNION {{<<shape, VolumeWorld(shape, [i \in 1..(shape[1] * shape[2]) |->
                                                 IF i = x[1] THEN MaxVol + 1
                                                 ELSE IF i = x[2] THEN MaxVol ELSE 1])>> :
                    x \in (1..(shape[1] * shape[2])) \X (1..(shape[1] * shape[2]))} :
                shape \in DeepShapes}

InitWinner ==
    /\ \E x \in WinnerInputs :
          /\ queries = QueryList(x[1][1])
          /\ bounds = WinnerBounds(x[1][2])
          /\ world = x[2]
    /\ granularity = "HOUR"
    /\ category = CAT_NONE
    /\ data = <<>>
    /\ request_structure = <<>>
    /\ is_consistent = FALSE
    /\ now = Clock
    /\ last = Observed("__init__", NoError)
    /\ sizes = <<>>
    /\ callers = <<>>

PyramidBuilt(won) ==
    /\ last.op = "__init__"
    /\ last' = [op |-> "phase1", raised |-> won.raised, requests |-> won.requests]
    /\ UNCHANGED <<queries, granularity, category, bounds, data, request_structure,
                   is_consistent, world, now, sizes, callers>>

\* lines 299-318 of get_data: the base layer and Phase 1
RunPhase1 ==
    PyramidBuilt(Phase1([queries |-> queries, granularity |-> granularity,
                         category |-> category, bounds |-> bounds,
                         delay |-> DEFAULT_DELAY],
                        0,
                        Depth(Len(BaseLayer(queries, build_intervals(bounds, granularity)))),
                        FetchState(BaseLayer(queries, build_intervals(bounds, granularity))),
                        [w |-> world, fail |-> 0, rand |-> 0]))

GroupProbed(qs, r, won) ==
    /\ last' = [op |-> "_get_max_request", queries |-> qs, response |-> r,
                raised |-> won.raised, query |-> won.query]
    /\ UNCHANGED <<queries, granularity, category, bounds, data, request_structure,
                   is_consistent, world, now, sizes, callers>>

\* lines 313-314 of get_data: _get_max_request on one group of a layer
ProbeGroup ==
    /\ last.op = "phase1"
    /\ \E i \in 1..Len(last.requests) :
          \E j \in {g * MAX_FRGMNTS : g \in 0..(Len(last.requests[i]) \div MAX_FRGMNTS)} :
             /\ j < Len(last.requests[i])
             /\ GroupProbed(Slice(last.requests[i], j, j + MAX_FRGMNTS),
                            get_timeseries(Slice(last.requests[i], j, j + MAX_FRGMNTS),
                                           category, granularity, 0,
                                           [w |-> world, fail |-> 0, rand |-> 0]),
                            get_max_request([queries |-> queries,
                                             granularity |-> granularity,
                                             category |-> category, bounds |-> bounds,
                                             delay |-> DEFAULT_DELAY],
                                            Slice(last.requests[i], j, j + MAX_FRGMNTS),
                                            0, [w |-> world, fail |-> 0, rand |-> 0]))

Normalization(st) ==
    /\ last' = [op |-> "phase2", raised |-> st.raised, requests |-> st.requests,
                events |-> st.events, response_flat |-> st.response_flat]
    /\ UNCHANGED <<queries, granularity, category, bounds, data, request_structure,
                   is_consistent, world, now, sizes, callers>>

\* lines 319-326 of get_data: Phase 2 on the layers Phase 1 built
RunPhase2 ==
    /\ last.op = "phase1"
    /\ last.raised = NoError
    /\ Normalization(Phase2([queries |-> queries, granularity |-> granularity,
                             category |-> category, bounds |-> bounds,
                             delay |-> DEFAULT_DELAY],
                            last.requests, 0,
                            [raised |-> NoError, events |-> <<>>,
                             requests |-> last.requests, response_flat |-> <<>>],
                            [w |-> world, fail |-> 0, rand |-> 0]))

NextWinner == RunPhase1 \/ ProbeGroup \/ RunPhase2

SpecWinner == InitWinner /\ [][NextWinner]_vars

-----------------------------------------------------------------------------
(* get_data with a delay of the caller's choice, and every value of random() *)

PaceSeeds == 0..RandSteps
Delays == {-1, 0, 1, DEFAULT_DELAY}

\* 1, 6, 6 and 26 fragments
PaceTuples ==
    { <<QueryList(1), "DAY", CAT_NONE, LongBounds(1)>>,
      <<QueryList(2), "DAY", CAT_NONE, LongBounds(600)>>,
      <<QueryList(1), "DAY", CAT_COMPUTERS, LongBounds(1400)>>,
      <<QueryList(1), "HOUR", CAT_NONE, <<Upper - 4300, Upper>>>> }

PaceInputs == {<<t[1], t[2], t[3], t[4], w>> : t \in PaceTuples, w \in LongWorlds}

InitPace ==
    /\ \E x \in PaceInputs :
          /\ queries = x[1]
          /\ granularity = x[2]
          /\ category = x[3]
          /\ bounds = x[4]
          /\ world = x[5]
    /\ data = <<>>
    /\ request_structure = <<>>
    /\ is_consistent = FALSE
    /\ now = Clock
    /\ last = Observed("__init__", NoError)
    /\ sizes = <<>>
    /\ callers = <<>>

\* Compute on these inputs, evaluated once
PaceTable ==
    [x \in PaceInputs |->
        [y \in Delays \X (0..MaxFail) \X PaceSeeds |->
            Compute([queries |-> x[1], granularity |-> x[2], category |-> x[3],
                     bounds |-> x[4], delay |-> y[1]],
                    FALSE, [w |-> x[5], fail |-> y[2], rand |-> y[3]])] @@ <<>>] @@ <<>>

\* get_data(delay=delay)
get_data_delay(delay, fail, seed) ==
    /\ IF Cached
       THEN ReturnCached(delay, FALSE)
       ELSE Recompute(delay, FALSE, fail,
                      PaceTable[<<queries, granularity, category, bounds, world>>][
                                <<delay, fail, seed>>])
    /\ UNCHANGED <<queries, granularity, category, bounds, world, now, sizes, callers>>

GetDataDelay ==
    \E delay \in Delays, fail \in 0..MaxFail, seed \in PaceSeeds :
        get_data_delay(delay, fail, seed)

NextPace == GetDataDelay

SpecPace == InitPace /\ [][NextPace]_vars

-----------------------------------------------------------------------------
(* The loops of one computing get_data, step by step: an iteration of a     *)
(* loop is a step.  The series are left out: of an answer only whether it    *)
(* holds a maximum of 100 is known, and the upstream answers every request.  *)
(* callers[1] is the frame of the call: pc, the locals of _build_intervals   *)
(* (time_pointer, intervals), layers (len(requests[k]) for every k), layer   *)
(* (len(layer)), the loop indices i and j, and sent, the comparisons so far. *)

MaxTermQueries == 2
TermSpansDays == {1, 269, 270, 271, 540, 600, 1400}
TermSpansHours == {20, 900, 4300}

TermWindows == 26

\* 5 keywords over 26 windows of hours: 130 fragments, four tournament layers
TermTuples ==
    {<<n, "DAY", LongBounds(d)>> : n \in 1..MaxTermQueries, d \in TermSpansDays}
    \cup {<<n, "HOUR", <<Upper - h, Upper>>>> : n \in 1..MaxTermQueries, h \in TermSpansHours}
    \cup {<<MAX_FRGMNTS + 1, "MONTH", LongBounds(31)>>,
          <<MAX_FRGMNTS, "HOUR", WinnerBounds(TermWindows)>>}

Frame(pc, time_pointer, intervals, layers, layer, i, j, sent) ==
    <<[pc |-> pc, time_pointer |-> time_pointer, intervals |-> intervals,
       layers |-> layers, layer |-> layer, i |-> i, j |-> j, sent |-> sent]>>

InitTerm ==
    /\ \E x \in TermTuples :
          /\ queries = QueryList(x[1])
          /\ granularity = x[2]
          /\ bounds = x[3]
    /\ category = CAT_NONE
    /\ world \in {w \in WorldChoices : w.events = {}}
    /\ data = <<>>
    /\ request_structure = <<>>
    /\ is_consistent = FALSE
    /\ now = Clock
    /\ last = Observed("__init__", NoError)
    /\ sizes = <<>>
    /\ callers = Frame("get_data", 0, <<>>, <<>>, 0, 0, 0, 0)

Moves(frame) ==
    /\ callers' = frame
    /\ UNCHANGED <<queries, granularity, category, bounds, data, request_structure,
                   is_consistent, world, now, last, sizes>>

\* lines 294-299: past the cache check, into _build_intervals (time_pointer = bounds[1])
EnterIntervals ==
    /\ callers[1].pc = "get_data"
    /\ ~Cached
    /\ Moves(Frame("intervals", bounds[2], <<>>, <<>>, 0, 0, 0, 0))

\* one iteration of the while loop of _build_intervals
IntervalStep ==
    /\ callers[1].pc = "intervals"
    /\ callers[1].time_pointer > bounds[1]
    /\ Moves(Frame("intervals",
                   callers[1].time_pointer - interval_length(bounds, granularity)
                       - interval_offset(granularity),
                   Append(callers[1].intervals,
                          <<callers[1].time_pointer - interval_length(bounds, granularity),
                            callers[1].time_pointer>>),
                   <<>>, 0, 0, 0, 0))

\* the loop is left; lines 300-305: the base layer, and which way to go
IntervalsDone ==
    /\ callers[1].pc = "intervals"
    /\ callers[1].time_pointer <= bounds[1]
    /\ Moves(Frame(IF Len(queries) * Len(callers[1].intervals) <= MAX_FRGMNTS
                   THEN "shortcut" ELSE "phase1",
                   callers[1].time_pointer, callers[1].intervals,
                   <<Len(queries) * Len(callers[1].intervals)>>, 0, 0, 0, 0))

\* lines 306-307
ShortcutRequest ==
    /\ callers[1].pc = "shortcut"
    /\ Moves(Frame("postprocessing", callers[1].time_pointer, callers[1].intervals,
                   callers[1].layers, 0, 0, 0, callers[1].sent + 1))

NextGroup_one(j) == j + 1

\* the step of range(0, len(requests[i]), MAX_FRGMNTS)
NextGroup(j) == j + MAX_FRGMNTS

\* lines 314-317: one iteration of the inner loop of Phase 1; _get_max_request
\* raises when no series of the answer has its maximum at 100
Probe ==
    /\ callers[1].pc = "phase1"
    /\ callers[1].i < Depth(callers[1].layers[1])
    /\ callers[1].j < callers[1].layers[callers[1].i + 1]
    /\ \E found \in BOOLEAN :
          Moves(Frame(IF found THEN "phase1" ELSE "raised",
                      callers[1].time_pointer, callers[1].intervals, callers[1].layers,
                      IF found THEN callers[1].layer + 1 ELSE callers[1].layer,
                      callers[1].i, NextGroup(callers[1].j), callers[1].sent + 1))

\* line 318: the inner loop is left, requests.append(layer)
LayerEnd ==
    /\ callers[1].pc = "phase1"
    /\ callers[1].i < Depth(callers[1].layers[1])
    /\ callers[1].j >= callers[1].layers[callers[1].i + 1]
    /\ Moves(Frame("phase1", callers[1].time_pointer, callers[1].intervals,
                   Append(callers[1].layers, callers[1].layer), 0,
                   callers[1].i + 1, 0, callers[1].sent))

\* the outer loop is left; line 320
Phase1Done ==
    /\ callers[1].pc = "phase1"
    /\ callers[1].i >= Depth(callers[1].layers[1])
    /\ Moves(Frame("phase2", callers[1].time_pointer, callers[1].intervals,
                   callers[1].layers, 0, 0, 0, callers[1].sent))

\* lines 321-326: one iteration of the loop of Phase 2; get_timeseries raises
\* when the slice and requests[-1] are more than 5 queries
NormRequest ==
    /\ callers[1].pc = "phase2"
    /\ callers[1].i < callers[1].layers[1]
    /\ Moves(Frame(IF Min2(MAX_FRGMNTS - 1, callers[1].layers[1] - callers[1].i)
                         + callers[1].layers[Len(callers[1].layers)] > MAX_QUERIES
                   THEN "raised" ELSE "phase2",
                   callers[1].time_pointer, callers[1].intervals, callers[1].layers, 0,
                   callers[1].i + MAX_FRGMNTS - 1, 0,
                   IF Min2(MAX_FRGMNTS - 1, callers[1].layers[1] - callers[1].i)
                         + callers[1].layers[Len(callers[1].layers)] > MAX_QUERIES
                   THEN callers[1].sent ELSE callers[1].sent + 1))

Phase2Done ==
    /\ callers[1].pc = "phase2"
    /\ callers[1].i >= callers[1].layers[1]
    /\ Moves(Frame("postprocessing", callers[1].time_pointer, callers[1].intervals,
                   callers[1].layers, 0, 0, 0, callers[1].sent))

\* lines 327-348: the loop over response_flat, then return
Return ==
    /\ callers[1].pc = "postprocessing"
    /\ Moves(Frame("returned", callers[1].time_pointer, callers[1].intervals,
                   callers[1].layers, 0, 0, 0, callers[1].sent))

NextTerm ==
    \/ EnterIntervals
    \/ IntervalStep
    \/ IntervalsDone
    \/ ShortcutRequest
    \/ Probe
    \/ LayerEnd
    \/ Phase1Done
    \/ NormRequest
    \/ Phase2Done
    \/ Return

\* the thread that called get_data keeps running
SpecTerm == InitTerm /\ [][NextTerm]_vars /\ WF_vars(NextTerm)

-----------------------------------------------------------------------------
(* Properties *)

TableValues(columns) == UNION {SeriesValues(columns[c].rows) : c \in 1..Len(columns)}
TableIndex(columns) == UNION {SeriesIndex(columns[c].rows) : c \in 1..Len(columns)}
PeaksAtFullScale(columns) ==
    FULL_SCALE \in TableValues(columns) /\ \A v \in TableValues(columns) : v <= FULL_SCALE

\* every comparison the upstream answers has a positive raw volume to rescale
UpstreamNormalizes == world.base > 0

Returned == last.op = "get_data" /\ last.raised = NoError
Setters == {"queries", "bounds", "granularity", "category"}
Gets(events) == SelectSeq(events, IsGet)
TopLayer == request_structure[Len(request_structure)]
TournamentPath == Len(request_structure[1]) > MAX_FRGMNTS

\* C1: with an upstream that rescales every comparison to a maximum of 100, every
\* get_data call that returns and was made with force_truncation = false returns
\* data whose maximum is exactly 100, calls answered from the cache included.
C1_MaxIs100 ==
    (Returned /\ ~last.force_truncation /\ UpstreamNormalizes)
        => PeaksAtFullScale(last.ret)

\* C2: a get_data call that follows a successful get_data with no assignment in
\* between returns the same value and issues no request and no sleep.
C2_Idempotent ==
    [][(Returned /\ last'.op = "get_data")
          => (last'.raised = NoError /\ last'.ret = last.ret /\ last'.events = <<>>)]_vars

C2_Witness == Returned /\ ~last.computed /\ last.events = <<>> /\ last.ret = data

\* C3: once data is held, the get_data call that follows an accepted assignment
\* to queries, bounds, granularity or category recomputes: it issues at least one
\* upstream request.
C3_Invalidation ==
    [][(data # <<>> /\ last.op \in Setters /\ last.raised = NoError
           /\ last'.op = "get_data")
          => (last'.computed /\ Gets(last'.events) # <<>>)]_vars

C3_Witness ==
    /\ last.op = "get_data"
    /\ last.computed
    /\ last.stale
    /\ Gets(last.events) # <<>>

\* C4: whenever is_consistent is true, data is what get_data computes from the
\* current queries, bounds, granularity and category.
C4_ConsistentIsCurrent ==
    is_consistent =>
        \E ft \in BOOLEAN, seed \in Seeds :
            LET r == ComputeTable[<<queries, granularity, category, bounds, world>>][
                                  <<ft, 0, seed>>]
            IN r.raised = NoError /\ data = r.data
               /\ request_structure = r.request_structure

C4_Witness == is_consistent /\ Returned /\ last.computed /\ last.stale

\* C5: no comparison that get_data hands to the client, and so no explore or
\* timeseries request it issues, carries more than 5 fragments.
C5_GroupSize ==
    last.op = "get_data" =>
        \A i \in 1..Len(last.events) :
            /\ last.events[i].kind = "get_timeseries"
                  => Len(last.events[i].queries) <= MAX_FRGMNTS
            /\ IsGet(last.events[i]) => Len(last.events[i].items) <= MAX_FRGMNTS

C5_Witness ==
    /\ Returned
    /\ Len(request_structure) > 2
    /\ \E i \in 1..Len(last.events) :
          IsGet(last.events[i]) /\ Len(last.events[i].items) = MAX_FRGMNTS
    /\ \E i \in 1..Len(last.events) :
          IsGet(last.events[i]) /\ Len(last.events[i].items) = 2

\* the depth of the formula, with an exact logarithm
ExactDepth(n) == CeilLog(CeilDiv(n, MAX_FRGMNTS), 0, 1) + 1

\* C6: for a base layer of more than 5 fragments, depth iterations that each
\* reduce a layer of s fragments to ceil(s/5) winners leave exactly one fragment.
C6_Convergence ==
    /\ Len(sizes) > ExactDepth(sizes[1]) => sizes[ExactDepth(sizes[1]) + 1] = 1
    /\ Len(sizes) = Depth(sizes[1]) + 1 => sizes[Len(sizes)] = 1

C6_Witness ==
    /\ Len(sizes) = Depth(sizes[1]) + 1
    /\ Len(sizes) > 3
    /\ sizes[1] % MAX_FRGMNTS # 0

InWindow(t, query) == query.range[1] <= t /\ t <= query.range[2]

Covered(intervals, t) ==
    \E i \in 1..Len(intervals) : intervals[i][1] <= t /\ t <= intervals[i][2]

WholeDays(bnds) == bnds[1] % HoursPerDay = 0 /\ bnds[2] % HoursPerDay = 0

\* the days (DAY, MONTH) or hours (HOUR) of the bounds, both ends included
InstantsOf(bnds, gran) ==
    IF gran = "HOUR" THEN bnds[1]..bnds[2]
    ELSE {bnds[1] + Day(d) : d \in 0..TimedeltaDays(bnds[2] - bnds[1])}

\* C8: the windows of _build_intervals cover the bounds: every day (DAY, MONTH)
\* or hour (HOUR) from bounds.lower to bounds.upper lies in some window, and no
\* window ends after bounds.upper.
C8_Coverage ==
    (last.op = "_build_intervals" /\ (granularity = "HOUR" \/ WholeDays(bounds))) =>
        /\ \A t \in InstantsOf(bounds, granularity) : Covered(last.ret, t)
        /\ \A i \in 1..Len(last.ret) : last.ret[i][2] <= bounds[2]

\* C9: every get_data call made with force_truncation = true that returns,
\* returns data with no instant earlier than bounds.lower, whatever calls
\* preceded it.
C9_ForcedTruncation ==
    (Returned /\ last.force_truncation) => \A t \in TableIndex(last.ret) : t >= bounds[1]

\* C10: get_timeseries called with more than 5 queries raises ValueError before
\* any explore or timeseries request is sent, whatever the query dicts hold.
C10_OverCap ==
    (last.op = "get_timeseries" /\ Len(last.queries) > MAX_QUERIES) =>
        (last.raised = "ValueError" /\ last.events = <<>>)

C10_Witness ==
    /\ last.op = "get_timeseries"
    /\ Len(last.queries) = MAX_QUERIES + 1
    /\ \E i \in 1..Len(last.queries) : last.queries[i].key = Absent
    /\ last.raised = "ValueError"

FirstGroup == Slice(BaseLayer(queries, build_intervals(bounds, granularity)), 0, MAX_FRGMNTS)

\* a failed get_data: nothing follows the failing request, and the flag is down
FailedCleanly ==
    (last.op = "get_data" /\ last.raised # NoError) =>
        /\ ~is_consistent
        /\ last.computed
        /\ last.ret = <<>>
        /\ IsGet(last.events[Len(last.events)])
        /\ last.raised = "RequestException" => CountGets(last.events) = last.failed_get

\* C11: a get_data that meets a failing upstream call, or a tournament group with
\* no maximum of 100, raises, issues nothing after the failing request and leaves
\* is_consistent false; the next get_data recomputes from the first request.
C11_ErrorPropagation ==
    [][/\ FailedCleanly'
       /\ (last.op = "get_data" /\ last.raised # NoError /\ last'.op = "get_data")
             => /\ last'.computed
                /\ last'.events # <<>>
                /\ last'.events[1].kind = "get_timeseries"
                /\ last'.events[1].queries = FirstGroup]_vars

\* a normalization request failed while stale data of an earlier success is held
C11_Witness ==
    /\ last.op = "get_data"
    /\ last.raised = "RequestException"
    /\ last.failed_get > 4
    /\ last.stale
    /\ \E i \in 1..Len(last.events) : last.events[i].kind = "sleep"

\* a tournament group without a maximum of 100
C11_WitnessNoMaximum ==
    /\ last.op = "get_data"
    /\ last.raised = "ValueError"
    /\ Len(last.events[1].queries) = MAX_FRGMNTS
    /\ last.events[Len(last.events)].kind = "timeseries"

\* C12: every comparison get_data issues, on the shortcut path as in the
\* tournament probes and the normalization requests, carries the container's
\* current category.
C12_CategoryOnEveryCall ==
    last.op = "get_data" =>
        \A i \in 1..Len(last.events) :
            last.events[i].kind # "sleep" => last.events[i].category = category

StrictlyIncreasing(rows) == \A r \in 1..(Len(rows) - 1) : rows[r][1] < rows[r + 1][1]

\* C13: with an upstream that answers each fragment with instants of that
\* fragment's window, every series get_data returns has strictly increasing
\* instants, for one window per keyword as for many.
C13_MonotoneIndex ==
    Returned => \A c \in 1..Len(last.ret) : StrictlyIncreasing(last.ret[c].rows)

C13_Witness ==
    /\ Returned
    /\ Len(last.ret) > 1
    /\ Len(request_structure[1]) > MAX_FRGMNTS
    /\ \A c \in 1..Len(last.ret) : Len(last.ret[c].rows) > 4

CurrentBaseLayer == BaseLayer(queries, build_intervals(bounds, granularity))
Kinds(events) == [i \in 1..Len(events) |-> events[i].kind]

\* C14: with a base layer of at most 5 fragments a computing get_data issues one
\* explore request, then one timeseries request and nothing else, never sleeps,
\* and on success records a request_structure made of layer 0 only; when the
\* explore request fails, nothing follows it.
C14_Shortcut ==
    (last.op = "get_data" /\ last.computed /\ Len(CurrentBaseLayer) <= MAX_FRGMNTS) =>
        /\ Kinds(last.events) \in
              {<<"get_timeseries", "explore">>, <<"get_timeseries", "explore", "timeseries">>}
        /\ last.raised = NoError =>
              /\ Kinds(last.events) = <<"get_timeseries", "explore", "timeseries">>
              /\ request_structure = <<CurrentBaseLayer>>

C14_Witness ==
    /\ Returned
    /\ last.computed
    /\ Len(CurrentBaseLayer) = MAX_FRGMNTS
    /\ request_structure = <<CurrentBaseLayer>>
    /\ Kinds(last.events) = <<"get_timeseries", "explore", "timeseries">>

\* C15: for granularity MONTH _build_intervals returns exactly one window; it
\* ends at bounds.upper and is max(days of the bounds, 1890) days long.
C15_MonthPlanning ==
    (last.op = "_build_intervals" /\ granularity = "MONTH") =>
        /\ Len(last.ret) = 1
        /\ last.ret[1][2] = bounds[2]
        /\ last.ret[1][2] - last.ret[1][1]
              = Day(Max2(TimedeltaDays(bounds[2] - bounds[1]), MONTH_MIN_DAYS))

C15_Witness ==
    /\ last.op = "_build_intervals"
    /\ granularity = "MONTH"
    /\ TimedeltaDays(bounds[2] - bounds[1]) > MONTH_MIN_DAYS
    /\ last.ret[1][1] = bounds[1]

ValidAt(b, clock) == EARLIEST <= b[1] /\ b[1] < b[2] /\ b[2] < clock

InFlight == {t \in Callers : callers[t].pc \in {"explore", "timeseries"}}
InComparison == {t \in Callers : callers[t].pc # "idle"}

\* C17: of the callers sharing one client at most one has a request in flight,
\* and no caller's request falls between the explore and the timeseries request
\* of another caller's comparison.
C17_Serialized == Cardinality(InFlight) <= 1 /\ Cardinality(InComparison) <= 1

\* C18: a successful RelatedQueries.get_data returns a dict with an entry for the
\* keyword of every query of the container, for every number of queries.
C18_EveryKeyword ==
    (last.op = "related.get_data" /\ last.raised = NoError) =>
        \A i \in 1..Len(queries) :
            \E k \in 1..Len(last.ret) : last.ret[k].key = queries[i].key

\* the highest raw volume of a fragment's keyword inside the fragment's window
FragmentVolume(frag) ==
    SetMax({Vol(world, frag.key, category, t) : t \in Sampled(world, frag.range)})

HighestVolume(layer) == SetMax({FragmentVolume(layer[i]) : i \in 1..Len(layer)})

\* C19: with an upstream that gives a maximum of 100 to exactly the fragments
\* holding the highest raw volume of a comparison, Phase 1 on a base layer of
\* more than 5 fragments ends with one fragment in its last layer, and that
\* fragment holds the highest raw volume of the whole base layer.
C19_GlobalMaximum ==
    (last.op = "phase1" /\ UpstreamNormalizes) =>
        /\ last.raised = NoError
        /\ Len(last.requests[1]) > MAX_FRGMNTS
        /\ Len(last.requests[Len(last.requests)]) = 1
        /\ FragmentVolume(last.requests[Len(last.requests)][1])
              = HighestVolume(last.requests[1])

\* three layers above the base, the highest volume in a group that is not the first
C19_Witness ==
    /\ last.op = "phase1"
    /\ UpstreamNormalizes
    /\ Len(last.requests) = 4
    /\ Len(last.requests[2]) > MAX_FRGMNTS
    /\ HighestVolume(last.requests[1]) = MaxVol + 1
    /\ FragmentVolume(last.requests[1][1]) = 1
    /\ last.requests[4][1] \notin {last.requests[1][i] : i \in 1..MAX_FRGMNTS}

\* the positions of a response whose series has its maximum at 100
AtFullScale(response) ==
    {i \in 1..Len(response) : SeriesMax(response[i]) = FULL_SCALE}

\* C20: _get_max_request on a tournament group whose comparison was answered
\* returns the fragment of the lowest index whose series has its maximum at
\* exactly 100, and raises ValueError when no series of the response has.
C20_WinnerSelection ==
    (last.op = "_get_max_request" /\ last.response.raised = NoError) =>
        IF AtFullScale(last.response.series) = {}
        THEN last.raised = "ValueError" /\ last.query = <<>>
        ELSE /\ last.raised = NoError
             /\ last.query = last.queries[SetMin(AtFullScale(last.response.series))]

\* two fragments of a group at 100, the first of the group below
C20_Witness ==
    /\ last.op = "_get_max_request"
    /\ last.response.raised = NoError
    /\ Cardinality(AtFullScale(last.response.series)) > 1
    /\ 1 \notin AtFullScale(last.response.series)
    /\ last.raised = NoError

\* a group none of whose series reaches 100
C20_WitnessNoMaximum ==
    /\ last.op = "_get_max_request"
    /\ last.response.raised = NoError
    /\ Len(last.queries) > 1
    /\ AtFullScale(last.response.series) = {}
    /\ last.raised = "ValueError"

IsCall(e) == e.kind = "get_timeseries"

\* the queries of the comparisons a call issued, in the order of issue
CallQueries(events) ==
    [i \in 1..Len(SelectSeq(events, IsCall)) |-> SelectSeq(events, IsCall)[i].queries]

\* the consecutive groups of a layer, left to right
GroupsOf(layer, width) ==
    [g \in 1..CeilDiv(Len(layer), width) |-> Slice(layer, (g - 1) * width, g * width)]

ProbeGroups(rs) == Flatten([k \in 1..(Len(rs) - 1) |-> GroupsOf(rs[k], MAX_FRGMNTS)])

NormGroups(rs) ==
    [g \in 1..CeilDiv(Len(rs[1]), MAX_FRGMNTS - 1) |->
        GroupsOf(rs[1], MAX_FRGMNTS - 1)[g] \o rs[Len(rs)]]

Elements(s) == {s[i] : i \in 1..Len(s)}

\* C21: a computing get_data on the tournament path plans the windows before its
\* first request (layer 0 is the planned base layer); it probes layer by layer,
\* inside a layer over the consecutive groups of at most 5 from left to right,
\* layer k+1 holding the winners in group order; and every probe comes before
\* every normalization request.
C21_RequestOrdering ==
    (Returned /\ last.computed /\ Len(CurrentBaseLayer) > MAX_FRGMNTS) =>
        /\ request_structure[1] = CurrentBaseLayer
        /\ CallQueries(last.events)
              = ProbeGroups(request_structure) \o NormGroups(request_structure)
        /\ \A k \in 1..(Len(request_structure) - 1) :
              /\ Len(request_structure[k + 1])
                    = Len(GroupsOf(request_structure[k], MAX_FRGMNTS))
              /\ \A g \in 1..Len(request_structure[k + 1]) :
                    request_structure[k + 1][g]
                        \in Elements(GroupsOf(request_structure[k], MAX_FRGMNTS)[g])

\* three layers above the base, the second one with several winners
C21_Witness ==
    /\ Returned
    /\ last.computed
    /\ Len(request_structure) > 3
    /\ Len(request_structure[2]) > MAX_FRGMNTS
    /\ Cardinality(Elements(request_structure[2])) > 1
    /\ Len(request_structure[1]) % (MAX_FRGMNTS - 1) # 0

\* the probes of a tournament over size fragments, layers_left layers to go
RECURSIVE ProbesFrom(_, _)
ProbesFrom(size, layers_left) ==
    IF layers_left = 0 THEN 0
    ELSE CeilDiv(size, MAX_FRGMNTS) + ProbesFrom(CeilDiv(size, MAX_FRGMNTS), layers_left - 1)

TotalProbes(n) == ProbesFrom(n, Depth(n))

\* the positions of the comparisons in the events of a call
CallPositions(events) == {i \in 1..Len(events) : IsCall(events[i])}

\* the positions of the tournament probes: the first TotalProbes comparisons
ProbePositions(events, n) ==
    {i \in CallPositions(events) :
        Cardinality({j \in CallPositions(events) : j <= i}) <= TotalProbes(n)}

SleepsBetween(events, i, j) == {k \in (i + 1)..(j - 1) : IsSleep(events[k])}

\* C22: in a computing get_data on the tournament path exactly one sleep lies
\* between two consecutive probes, of the same layer or of successive layers,
\* and every sleep lasts between 0.75 and 1.25 times the caller's delay.
C22_Pacing ==
    (last.op = "get_data" /\ last.computed /\ Len(CurrentBaseLayer) > MAX_FRGMNTS) =>
        /\ \A i, j \in ProbePositions(last.events, Len(CurrentBaseLayer)) :
              (i < j /\ \A k \in (i + 1)..(j - 1) : ~IsCall(last.events[k]))
                  => Cardinality(SleepsBetween(last.events, i, j)) = 1
        /\ \A k \in 1..Len(last.events) :
              IsSleep(last.events[k]) =>
                  /\ 4 * last.events[k].length >= 3 * MILLIS * last.delay
                  /\ 4 * last.events[k].length <= 5 * MILLIS * last.delay

\* nine probes in three layers, the shortest and the longest sleep among theirs
C22_Witness ==
    /\ last.op = "get_data"
    /\ last.computed
    /\ last.delay = DEFAULT_DELAY
    /\ Cardinality(ProbePositions(last.events, Len(CurrentBaseLayer))) > 8
    /\ \E k \in 1..Len(last.events) :
          IsSleep(last.events[k]) /\ 4 * last.events[k].length = 3 * MILLIS * last.delay
    /\ \E k \in 1..Len(last.events) :
          IsSleep(last.events[k]) /\ 4 * last.events[k].length = 5 * MILLIS * last.delay

\* C23: in a computing get_data on the tournament path no sleep comes after the
\* last tournament probe: none before the first normalization request, none
\* between two normalization requests and none after the last one.
C23_NoDelayAroundNormalization ==
    (last.op = "get_data" /\ last.computed /\ Len(CurrentBaseLayer) > MAX_FRGMNTS) =>
        \A k \in 1..Len(last.events) :
            IsSleep(last.events[k]) =>
                \E i \in ProbePositions(last.events, Len(CurrentBaseLayer)) : i > k

\* the part of C23 the code keeps: no sleep once the first normalization request is out
C23_NoDelayInsideNormalization ==
    (last.op = "get_data" /\ last.computed /\ Len(CurrentBaseLayer) > MAX_FRGMNTS) =>
        \A k \in 1..Len(last.events) :
            IsSleep(last.events[k]) =>
                \A i \in CallPositions(last.events) \ ProbePositions(last.events, Len(CurrentBaseLayer)) : k < i

\* what the upstream answers for the fragment at position pos of a comparison
AnswerFor(group, pos) ==
    UpstreamTimeline(world, ComparisonItems(group, granularity), category)[pos]

\* C24: the normalization requests are the consecutive slices of at most 4
\* fragments of layer 0, each followed by the winner as its last element; the
\* winner's series is dropped and the others kept, so that the flat result
\* holds one series per fragment of layer 0, in the order of layer 0, for base
\* layers of more than 5 fragments whether or not 4 divides their size.
C24_NormalizationOutput ==
    (last.op = "phase2" /\ last.raised = NoError) =>
        /\ Len(last.requests[Len(last.requests)]) = 1
        /\ CallQueries(last.events) = NormGroups(last.requests)
        /\ \A g \in 1..Len(NormGroups(last.requests)) :
              Len(NormGroups(last.requests)[g]) <= MAX_FRGMNTS
        /\ Len(last.response_flat) = Len(last.requests[1])
        /\ \A i \in 1..Len(last.requests[1]) :
              /\ last.response_flat[i]
                    = AnswerFor(NormGroups(last.requests)[((i - 1) \div (MAX_FRGMNTS - 1)) + 1],
                                ((i - 1) % (MAX_FRGMNTS - 1)) + 1)
              /\ SeriesIndex(last.response_flat[i])
                    \subseteq (last.requests[1][i].range[1])..(last.requests[1][i].range[2])

\* 27 fragments of three keywords: six full slices and one of three
C24_Witness ==
    /\ last.op = "phase2"
    /\ last.raised = NoError
    /\ Len(queries) > 1
    /\ Len(last.requests[1]) > MAX_FRGMNTS * MAX_FRGMNTS
    /\ Len(last.requests[1]) % (MAX_FRGMNTS - 1) = 3
    /\ Len(last.response_flat) = Len(last.requests[1])

\* C25: for DAY and HOUR the windows of _build_intervals are listed from the
\* latest to the earliest, the first one ending at bounds.upper; each later one
\* ends exactly one offset (a day, an hour) before the lower end of the one
\* listed before it, so the windows are pairwise disjoint closed intervals and
\* no two of them share an endpoint.
C25_NonOverlapping ==
    (last.op = "_build_intervals" /\ granularity \in {"DAY", "HOUR"}) =>
        /\ last.ret # <<>>
        /\ last.ret[1][2] = bounds[2]
        /\ \A k \in 1..Len(last.ret) : last.ret[k][1] < last.ret[k][2]
        /\ \A k \in 1..(Len(last.ret) - 1) :
              last.ret[k + 1][2]
                  = last.ret[k][1] - (IF granularity = "HOUR" THEN 1 ELSE HoursPerDay)
        /\ \A i, j \in 1..Len(last.ret) : i < j => last.ret[j][2] < last.ret[i][1]

\* three windows of hours
C25_Witness ==
    /\ last.op = "_build_intervals"
    /\ granularity = "HOUR"
    /\ Len(last.ret) > 2
    /\ last.ret[2][2] = last.ret[1][1] - 1

\* the earliest instant at which some column of the table holds the table's maximum
MaxTs(columns) ==
    SetMin({t \in TableIndex(columns) :
               \E c \in 1..Len(columns) : SetMax(TableValues(columns)) \in ValuesAt(columns[c].rows, t)})

FromLower(rows, lower) == SelectSeq(rows, LAMBDA row : row[1] >= lower)

\* C26: a computing get_data whose stitched maximum lies at or after
\* bounds.lower, or that is called with force_truncation, stores and returns
\* exactly the stitched rows from bounds.lower on and does not warn; otherwise
\* it stores and returns the whole stitched data and warns.
C26_TruncationPolicy ==
    (Returned /\ last.computed) =>
        /\ data = last.ret
        /\ Len(last.ret) = Len(last.stitched)
        /\ IF MaxTs(last.stitched) >= bounds[1] \/ last.force_truncation
           THEN /\ ~last.warned
                /\ \A c \in 1..Len(last.ret) :
                      /\ last.ret[c].name = last.stitched[c].name
                      /\ last.ret[c].rows = FromLower(last.stitched[c].rows, bounds[1])
           ELSE /\ last.warned
                /\ last.ret = last.stitched

\* the maximum before bounds.lower: kept with a warning
C26_Witness ==
    /\ Returned
    /\ last.computed
    /\ ~last.force_truncation
    /\ MaxTs(last.stitched) < bounds[1]
    /\ SetMax(TableValues(last.stitched)) = FULL_SCALE
    /\ last.warned

\* the maximum before bounds.lower: cut off when the truncation is forced
C26_WitnessForced ==
    /\ Returned
    /\ last.computed
    /\ last.force_truncation
    /\ MaxTs(last.stitched) < bounds[1]
    /\ SetMax(TableValues(last.stitched)) = FULL_SCALE
    /\ last.ret # last.stitched

PassedValidation == last.op = "get_timeseries" /\ last.raised \notin {"ValueError", "KeyError"}

\* C27: a get_timeseries call that passes the input checks sends one explore
\* request and then at most one timeseries request, which carries the request
\* and the token of the TIMESERIES widget that explore returned; when the
\* explore request fails no timeseries request is sent.
C27_TwoStage ==
    PassedValidation =>
        /\ Len(last.events) \in {1, 2}
        /\ last.events[1].kind = "explore"
        /\ last.events[1].items = ComparisonItems(last.queries, "DAY")
        /\ Len(last.events) = 2 =>
              /\ last.events[2].kind = "timeseries"
              /\ last.events[2].token = ExploreWidgets(last.events[1], 1)["TIMESERIES"].token
              /\ last.events[2].items = ExploreWidgets(last.events[1], 1)["TIMESERIES"].req.items
              /\ last.events[2].category
                    = ExploreWidgets(last.events[1], 1)["TIMESERIES"].req.category
        /\ Len(last.events) = 1 <=> (last.raised = "RequestException" /\ last.ret = <<>>
                                     /\ last.failed_get = 1)
        /\ last.raised = NoError => Len(last.events) = 2

\* the explore request failed: nothing follows
C27_Witness ==
    /\ PassedValidation
    /\ Len(last.queries) = MAX_QUERIES
    /\ last.raised = "RequestException"
    /\ Len(last.events) = 1

\* both requests sent, to the multirange endpoint
C27_WitnessPair ==
    /\ PassedValidation
    /\ last.raised = NoError
    /\ Len(last.events) = 2
    /\ last.events[2].api = "MULTI"
    /\ last.events[2].token[1] = "TIMESERIES"

\* C28: is_consistent of a RelatedQueries container is true only when the last
\* get_data ran to its end without raising, for the queries the container now
\* holds: a get_data that met a failing request leaves it false, and the next
\* get_data asks the upstream again.
C28_RelatedConsistency ==
    (last.op = "related.get_data" /\ last.raised # NoError) => ~is_consistent

\* C29: a get_data that meets a failing upstream call, in the shortcut, in a
\* tournament probe or in a normalization request, leaves data and
\* request_structure as they were before the call: no layer and no response of
\* the failed call is stored.
C29_FrameOnFailure ==
    [][(last'.op = "get_data" /\ last'.raised = "RequestException")
          => /\ data' = data
             /\ request_structure' = request_structure]_vars

\* a normalization request failed over the data and the layers of an earlier call
C29_Witness ==
    /\ last.op = "get_data"
    /\ last.raised = "RequestException"
    /\ last.failed_get > 8
    /\ last.stale
    /\ data # <<>>
    /\ Len(request_structure) = 1
    /\ ~is_consistent

\* the probes of the layers below the last one, a group of at most 5 each
ProbesOfLayers(layers) ==
    IF Len(layers) = 1 THEN 0
    ELSE LET Sum[k \in 0..(Len(layers) - 1)] ==
                 IF k = 0 THEN 0 ELSE Sum[k - 1] + CeilDiv(layers[k], MAX_FRGMNTS)
         IN Sum[Len(layers) - 1]

Ended == callers[1].pc \in {"returned", "raised"}

====
